---- MODULE Spec2Model ----
(***************************************************************************)
(* Model of yt-rss-enhancer (src/src/main.rs): a proxy that fetches a      *)
(* YouTube channel feed, drops shorts, appends the video length to the     *)
(* titles, and caches the per-video metadata in a Mutex-protected State    *)
(* that is written back to a JSON file.                                    *)
(*                                                                         *)
(* Every rouille worker thread runs handle_youtube_feed; the threads share *)
(* one Arc<Mutex<State>>.  A worker's steps are cut at the points where it *)
(* touches the shared state (the mutex, the map, the file) or the outside  *)
(* world (yt-dlp); everything it does on its own locals in between is part *)
(* of the step that precedes it.                                           *)
(***************************************************************************)
EXTENDS Integers, Sequences, FiniteSets, TLC

\* ----------------------------------------------------------------------
\* Bounds of the model
\* ----------------------------------------------------------------------
NumWorkers == 2
MaxFeedLen == 3
MaxTime == 1
TicksPerSecond == 2
MaxSeconds == 3700

\* ----------------------------------------------------------------------
\* Program constants
\* ----------------------------------------------------------------------
ShortMaxDuration == 180

Workers == 1 .. NumWorkers

\* Option<T>: None, or Some(x)
None == << >>
Some(x) == << x >>

\* ----------------------------------------------------------------------
\* YoutubeVideo and its persisted form
\* ----------------------------------------------------------------------
\* timestamp is in clock ticks (DateTime<Utc> is finer than a second)
YoutubeVideo(ts, len, short) == [timestamp |-> ts, length |-> len, is_short |-> short]

\* #[serde(with = "chrono::serde::ts_seconds")]: whole seconds since the epoch
ts_seconds_serialize(ts) == ts \div TicksPerSecond
ts_seconds_deserialize(secs) == secs * TicksPerSecond

\* SerializeVideo with is_short left out of the file
SerializeVideoSkipShort(v) ==
    [timestamp |-> ts_seconds_serialize(v.timestamp), length |-> v.length, is_short |-> FALSE]

SerializeVideo(v) ==
    [timestamp |-> ts_seconds_serialize(v.timestamp), length |-> v.length, is_short |-> v.is_short]
DeserializeVideo(j) ==
    YoutubeVideo(ts_seconds_deserialize(j.timestamp), j.length, j.is_short)

\* State as JSON: only youtube_videos (dirty and file are #[serde(skip)])
SerializeState(videos) == [id \in DOMAIN videos |-> SerializeVideo(videos[id])]
DeserializeState(json) == [id \in DOMAIN json |-> DeserializeVideo(json[id])]

EmptyMap == [id \in {} |-> 0]

\* ----------------------------------------------------------------------
\* yt-dlp
\* ----------------------------------------------------------------------
\* what yt-dlp --dump-json may report
YtDlpJson ==
    { [duration |-> 59, width |-> 9, height |-> 16],
      [duration |-> 125, width |-> 16, height |-> 9],
      [duration |-> 200, width |-> 9, height |-> 16] }

\* what it reports while several requests are handled at once
ConcurrentYtDlpJson ==
    { [duration |-> 59, width |-> 9, height |-> 16],
      [duration |-> 125, width |-> 16, height |-> 9] }

\* the three ways fetch_youtube_video_data fails
FetchErrors ==
    { "failed to start yt-dlp; make sure it is installed",
      "failed to parse yt-dlp JSON",
      "yt-dlp returned non-zero exit status" }

\* is_short with both comparisons strict
is_short_strict(json) == json.duration < ShortMaxDuration /\ json.height > json.width

is_short(json) == json.duration <= ShortMaxDuration /\ json.height >= json.width

\* the Ok value of fetch_youtube_video_data
FetchedVideo(json, ts) == YoutubeVideo(ts, json.duration, is_short(json))

\* ----------------------------------------------------------------------
\* format_duration
\* ----------------------------------------------------------------------
\* {seconds} in place of {seconds:02}
Pad2NoPad(n) == ToString(n)

\* {seconds:02}
Pad2(n) == IF n < 10 THEN "0" \o ToString(n) ELSE ToString(n)

format_duration(secs) ==
    LET minutes == secs \div 60
        seconds == secs % 60
    IN  IF minutes = 0
        THEN ToString(seconds) \o "s"
        ELSE ToString(minutes) \o ":" \o Pad2(seconds) \o "s"

\* format!("{title} ({duration})", ...)
NewTitle(title, video) == title \o " (" \o format_duration(video.length) \o ")"

\* ----------------------------------------------------------------------
\* xmltree::Element
\* ----------------------------------------------------------------------
Element(name, text, children) == [name |-> name, text |-> text, children |-> children]
Leaf(name, text) == Element(name, text, << >>)

RemoveAt(s, i) == SubSeq(s, 1, i - 1) \o SubSeq(s, i + 1, Len(s))

\* index of the first child with that name, 0 if there is none
FirstIdx(children, name) ==
    IF \E i \in 1 .. Len(children) : children[i].name = name
    THEN CHOOSE i \in 1 .. Len(children) :
            /\ children[i].name = name
            /\ \A j \in 1 .. (i - 1) : children[j].name # name
    ELSE 0

get_child(children, name) ==
    LET i == FirstIdx(children, name)
    IN  IF i = 0 THEN None ELSE Some(children[i])

\* removes the first child with that name and returns it
take_child(children, name) ==
    LET i == FirstIdx(children, name)
    IN  IF i = 0
        THEN [taken |-> None, rest |-> children]
        ELSE [taken |-> Some(children[i]), rest |-> RemoveAt(children, i)]

\* entry.get_child(name).and_then(|e| e.get_text())
ChildText(children, name) ==
    LET c == get_child(children, name)
    IN  IF c = None THEN None ELSE c[1].text

\* while let Some(_) = entry.take_child("updated") {}
RECURSIVE TakeAll(_, _)
TakeAll(children, name) ==
    LET t == take_child(children, name)
    IN  IF t.taken = None THEN children ELSE TakeAll(t.rest, name)

\* title_elem.children = vec![Text(title)]
SetTitle(children, title) ==
    LET i == FirstIdx(children, "title")
    IN  [children EXCEPT ![i] = [@ EXCEPT !.text = Some(title)]]

\* ----------------------------------------------------------------------
\* Feeds the upstream may serve
\* ----------------------------------------------------------------------
Entry(children) == Element("entry", None, children)

EntryA ==
    Entry(<< Leaf("videoId", Some("v1")), Leaf("title", Some("A")), Leaf("updated", Some("u")) >>)
EntryB ==
    Entry(<< Leaf("updated", Some("u")), Leaf("title", Some("B")), Leaf("videoId", Some("v2")),
             Leaf("updated", Some("w")) >>)
EntryNoVideoId == Entry(<< Leaf("title", Some("C")) >>)
EntryNoTitle == Entry(<< Leaf("videoId", Some("v1")), Leaf("title", None) >>)

FeedChildren ==
    { Leaf("link", None), Leaf("author", Some("N")), EntryA, EntryB, EntryNoVideoId, EntryNoTitle }

SeqsUpTo(S, n) == UNION { [1 .. k -> S] : k \in 0 .. n }

Feeds == SeqsUpTo(FeedChildren, MaxFeedLen)

\* the feeds served while several requests are handled at once
ConcurrentFeeds ==
    { << EntryA >>, << EntryB >>, << EntryA, EntryNoVideoId >> }

\* ----------------------------------------------------------------------
\* Results
\* ----------------------------------------------------------------------
Ok(v) == [ok |-> TRUE, value |-> v]
Err(msg) == [ok |-> FALSE, error |-> msg]

\* Response::from_data("text/xml", output): the serialized children of the feed
FeedResponse(children) == [status |-> 200, body |-> children]
\* Response::text("endpoint not found: ...").with_status_code(404)
NotFoundResponse == [status |-> 404]

FeedUrl == "/www.youtube.com/feeds/videos.xml"

\* Response::text("internal server error: ...").with_status_code(500)
ErrorResponse(msg) == [status |-> 500, error |-> msg]

\* response.unwrap_or_else(|err| ...) in the closure of main
ResponseOf(res) == IF res.ok THEN res.value ELSE ErrorResponse(res.error)

\* a request together with what the upstream answers to it
Request(url, channel_id, upstream, children) ==
    [url |-> url, channel_id |-> channel_id, upstream |-> upstream, feed |-> children]

Requests(feeds) ==
    { Request("/other", TRUE, "ok", << >>),
      Request(FeedUrl, FALSE, "ok", << >>),
      Request(FeedUrl, TRUE, "send_failed", << >>),
      Request(FeedUrl, TRUE, "parse_failed", << >>) }
    \cup { Request(FeedUrl, TRUE, "ok", f) : f \in feeds }

\* ----------------------------------------------------------------------
\* State
\* ----------------------------------------------------------------------
VARIABLES
    youtube_videos,  \* State.youtube_videos
    dirty,           \* State.dirty
    lock,            \* the Mutex around State: 0 when free, else the worker holding the guard
    file,            \* the state file on disk
    now,             \* the wall clock read by Utc::now(), in ticks
    worker,          \* per worker thread: position in and locals of handle_youtube_feed
    probe            \* None; or a function call looked at on its own; or the request
                     \* served last, where a specification keeps it

vars == << youtube_videos, dirty, lock, file, now, worker, probe >>

\* the state file: absent, completely written, or cut short (created and not
\* written to its end)
File(status, data) == [status |-> status, data |-> data]

\* state files the process may find at start
InitialFiles ==
    { File("absent", EmptyMap),
      File("complete", EmptyMap),
      File("complete", [id \in {"v1"} |-> [timestamp |-> 0, length |-> 125, is_short |-> FALSE]]) }

\* load_state
load_state(f) ==
    IF f.status = "absent" THEN EmptyMap ELSE DeserializeState(f.data)

\* a worker thread that is waiting for a request
Idle ==
    [pc |-> "idle", request |-> None, feed |-> << >>, entries |-> << >>, entry |-> None,
     video_id |-> None, title |-> None, video_data |-> None, result |-> None,
     store_called |-> FALSE]

\* handle_youtube_feed returns res
Return(l, res) ==
    [Idle EXCEPT !.pc = "returned", !.request = l.request, !.result = Some(res),
                 !.store_called = l.store_called]

\* LoopHead with a malformed entry ending the loop instead of the request
LoopHeadBreak(l) ==
    LET t == take_child(l.feed, "entry")
    IN  IF t.taken = None
        THEN [l EXCEPT !.feed = l.feed \o l.entries, !.entries = << >>, !.entry = None,
                       !.video_id = None, !.title = None, !.pc = "store"]
        ELSE LET e == t.taken[1]
                 video_id == ChildText(e.children, "videoId")
                 title == ChildText(e.children, "title")
             IN  IF video_id = None \/ title = None
                 THEN [l EXCEPT !.feed = t.rest \o l.entries, !.entries = << >>,
                                !.entry = None, !.video_id = None, !.title = None,
                                !.pc = "store"]
                 ELSE [l EXCEPT !.feed = t.rest, !.entry = Some(e), !.video_id = video_id,
                                !.title = title, !.pc = "lookup"]

\* LoopHead with the entries put back in front of the other children
LoopHeadPrepend(l) ==
    LET t == take_child(l.feed, "entry")
    IN  IF t.taken = None
        THEN [l EXCEPT !.feed = l.entries \o l.feed, !.entries = << >>, !.entry = None,
                       !.video_id = None, !.title = None, !.pc = "store"]
        ELSE LET e == t.taken[1]
                 video_id == ChildText(e.children, "videoId")
                 title == ChildText(e.children, "title")
             IN  IF video_id = None THEN Return(l, Err("videoId element missing"))
                 ELSE IF title = None THEN Return(l, Err("videoId element missing"))
                 ELSE [l EXCEPT !.feed = t.rest, !.entry = Some(e), !.video_id = video_id,
                                !.title = title, !.pc = "lookup"]

\* LoopHead with the title looked at only after the video data was got
LoopHeadLateTitle(l) ==
    LET t == take_child(l.feed, "entry")
    IN  IF t.taken = None
        THEN [l EXCEPT !.feed = l.feed \o l.entries, !.entries = << >>, !.entry = None,
                       !.video_id = None, !.title = None, !.pc = "store"]
        ELSE LET e == t.taken[1]
                 video_id == ChildText(e.children, "videoId")
                 title == ChildText(e.children, "title")
             IN  IF video_id = None THEN Return(l, Err("videoId element missing"))
                 ELSE [l EXCEPT !.feed = t.rest, !.entry = Some(e), !.video_id = video_id,
                                !.title = title, !.pc = "lookup"]

\* the head of the loop: take the next entry, read its videoId and title
LoopHead(l) ==
    LET t == take_child(l.feed, "entry")
    IN  IF t.taken = None
        THEN \* for entry in entries { feed.children.push(entry) }; next is store_state
             [l EXCEPT !.feed = l.feed \o l.entries, !.entries = << >>, !.entry = None,
                       !.video_id = None, !.title = None, !.pc = "store"]
        ELSE LET e == t.taken[1]
                 video_id == ChildText(e.children, "videoId")
                 title == ChildText(e.children, "title")
             IN  IF video_id = None THEN Return(l, Err("videoId element missing"))
                 ELSE IF title = None THEN Return(l, Err("videoId element missing"))
                 ELSE [l EXCEPT !.feed = t.rest, !.entry = Some(e), !.video_id = video_id,
                                !.title = title, !.pc = "lookup"]

\* LoopBody without the test for shorts
LoopBodyKeepShorts(l, video) ==
    LET e == l.entry[1]
        retitled == SetTitle(e.children, NewTitle(l.title[1], video))
        kept == TakeAll(retitled, "updated")
    IN  LoopHead([l EXCEPT !.entries = Append(@, [e EXCEPT !.children = kept])])

\* the rest of the loop body once get_youtube_video_data returned Ok(video),
\* and on to the head of the loop
LoopBody(l, video) ==
    IF video.is_short
    THEN LoopHead(l)
    ELSE LET e == l.entry[1]
         IN  IF FirstIdx(e.children, "title") = 0
             THEN Return(l, Err("title element missing"))
             ELSE LET retitled == SetTitle(e.children, NewTitle(l.title[1], video))
                      kept == TakeAll(retitled, "updated")
                  IN  LoopHead([l EXCEPT !.entries = Append(@, [e EXCEPT !.children = kept])])

\* handle_youtube_feed up to its first use of the shared state
Begin(l) ==
    LET req == l.request[1]
    IN  IF req.url # FeedUrl THEN Return(l, Ok(NotFoundResponse))
        ELSE IF ~req.channel_id THEN Return(l, Err("channel_id param missing"))
        ELSE IF req.upstream = "send_failed"
             THEN Return(l, Err("failed to fetch RSS feed from YouTube"))
        ELSE IF req.upstream = "parse_failed"
             THEN Return(l, Err("failed to parse RSS feed from YouTube"))
        ELSE LoopHead([l EXCEPT !.feed = req.feed])

\* youtube_videos.insert(video_id, video_data)
MapInsert(videos, id, video) ==
    [k \in DOMAIN videos \cup {id} |-> IF k = id THEN video ELSE videos[k]]

Init ==
    /\ file \in InitialFiles
    /\ youtube_videos = load_state(file)
    /\ dirty = FALSE
    /\ lock = 0
    /\ now = 0
    /\ worker = [w \in Workers |-> Idle]
    /\ probe = None

\* ----------------------------------------------------------------------
\* Steps of a worker
\* ----------------------------------------------------------------------
\* a request arrives; the worker runs up to its first lookup
StartRequest(w, feeds) ==
    /\ worker[w].pc = "idle"
    /\ \E req \in Requests(feeds) :
          worker' = [worker EXCEPT ![w] = Begin([Idle EXCEPT !.request = Some(req)])]
    /\ UNCHANGED << youtube_videos, dirty, lock, file, now, probe >>

\* get_youtube_video_data: state.lock() of the lookup
LookupLock(w) ==
    /\ worker[w].pc = "lookup"
    /\ lock = 0
    /\ lock' = w
    /\ worker' = [worker EXCEPT ![w].pc = "lookup_locked"]
    /\ UNCHANGED << youtube_videos, dirty, file, now, probe >>

\* LookupHit with the cached record renewed at each use
LookupHitRefresh(w) ==
    /\ worker[w].pc = "lookup_locked"
    /\ worker[w].video_id[1] \in DOMAIN youtube_videos
    /\ lock' = 0
    /\ LET video == [youtube_videos[worker[w].video_id[1]] EXCEPT !.timestamp = now]
       IN  /\ youtube_videos' = [youtube_videos EXCEPT ![worker[w].video_id[1]] = video]
           /\ worker' = [worker EXCEPT
                            ![w] = LoopBody([@ EXCEPT !.video_data = Some(video)], video)]
    /\ UNCHANGED << dirty, file, now, probe >>

\* the video is cached: return it; the guard is dropped
LookupHit(w) ==
    /\ worker[w].pc = "lookup_locked"
    /\ worker[w].video_id[1] \in DOMAIN youtube_videos
    /\ lock' = 0
    /\ LET video == youtube_videos[worker[w].video_id[1]]
       IN  worker' = [worker EXCEPT ![w] = LoopBody([@ EXCEPT !.video_data = Some(video)], video)]
    /\ UNCHANGED << youtube_videos, dirty, file, now, probe >>

\* LookupMiss without the test of the map
LookupMissAlways(w) ==
    /\ worker[w].pc = "lookup_locked"
    /\ lock' = 0
    /\ worker' = [worker EXCEPT ![w].pc = "fetch"]
    /\ UNCHANGED << youtube_videos, dirty, file, now, probe >>

\* LookupMiss with the guard kept over the call of yt-dlp
LookupMissHold(w) ==
    /\ worker[w].pc = "lookup_locked"
    /\ worker[w].video_id[1] \notin DOMAIN youtube_videos
    /\ worker' = [worker EXCEPT ![w].pc = "fetch"]
    /\ UNCHANGED << youtube_videos, dirty, lock, file, now, probe >>

\* the video is not cached: the guard is dropped, next is yt-dlp
LookupMiss(w) ==
    /\ worker[w].pc = "lookup_locked"
    /\ worker[w].video_id[1] \notin DOMAIN youtube_videos
    /\ lock' = 0
    /\ worker' = [worker EXCEPT ![w].pc = "fetch"]
    /\ UNCHANGED << youtube_videos, dirty, file, now, probe >>

\* fetch_youtube_video_data succeeds
FetchOk(w, jsons) ==
    /\ worker[w].pc = "fetch"
    /\ \E json \in jsons, t \in now .. MaxTime :
          /\ now' = t
          /\ worker' = [worker EXCEPT ![w].video_data = Some(FetchedVideo(json, t)),
                                      ![w].pc = "insert"]
    /\ UNCHANGED << youtube_videos, dirty, lock, file, probe >>

\* FetchErr that stores a record for the video that could not be fetched
FetchErrCached(w) ==
    /\ worker[w].pc = "fetch"
    /\ youtube_videos' = MapInsert(youtube_videos, worker[w].video_id[1], YoutubeVideo(now, 0, FALSE))
    /\ \E e \in FetchErrors : worker' = [worker EXCEPT ![w] = Return(@, Err(e))]
    /\ UNCHANGED << dirty, lock, file, now, probe >>

\* fetch_youtube_video_data fails: the error is returned by `?`
FetchErr(w) ==
    /\ worker[w].pc = "fetch"
    /\ \E e \in FetchErrors : worker' = [worker EXCEPT ![w] = Return(@, Err(e))]
    /\ UNCHANGED << youtube_videos, dirty, lock, file, now, probe >>

\* InsertLock that does not wait for the mutex
InsertLockNoWait(w) ==
    /\ worker[w].pc = "insert"
    /\ worker' = [worker EXCEPT ![w].pc = "insert_locked"]
    /\ UNCHANGED << youtube_videos, dirty, lock, file, now, probe >>

\* get_youtube_video_data: state.lock() of the insertion
InsertLock(w) ==
    /\ worker[w].pc = "insert"
    /\ lock = 0
    /\ lock' = w
    /\ worker' = [worker EXCEPT ![w].pc = "insert_locked"]
    /\ UNCHANGED << youtube_videos, dirty, file, now, probe >>

\* Insert that keeps a record that is already there
InsertIfAbsent(w) ==
    /\ worker[w].pc = "insert_locked"
    /\ youtube_videos' =
          IF worker[w].video_id[1] \in DOMAIN youtube_videos
          THEN youtube_videos
          ELSE MapInsert(youtube_videos, worker[w].video_id[1], worker[w].video_data[1])
    /\ dirty' = TRUE
    /\ lock' = 0
    /\ worker' = [worker EXCEPT ![w] = LoopBody(@, worker[w].video_data[1])]
    /\ UNCHANGED << file, now, probe >>

\* insert, set dirty, return Ok(video_data); the guard is dropped
Insert(w) ==
    /\ worker[w].pc = "insert_locked"
    /\ youtube_videos' = MapInsert(youtube_videos, worker[w].video_id[1], worker[w].video_data[1])
    /\ dirty' = TRUE
    /\ lock' = 0
    /\ worker' = [worker EXCEPT ![w] = LoopBody(@, worker[w].video_data[1])]
    /\ UNCHANGED << file, now, probe >>

\* store_state: state.lock()
StoreLock(w) ==
    /\ worker[w].pc = "store"
    /\ lock = 0
    /\ lock' = w
    /\ worker' = [worker EXCEPT ![w].pc = "store_locked", ![w].store_called = TRUE]
    /\ UNCHANGED << youtube_videos, dirty, file, now, probe >>

\* StoreClean with the guard kept after the return
StoreCleanHold(w) ==
    /\ worker[w].pc = "store_locked"
    /\ ~dirty
    /\ worker' = [worker EXCEPT ![w] = Return(@, Ok(FeedResponse(worker[w].feed)))]
    /\ UNCHANGED << youtube_videos, dirty, lock, file, now, probe >>

\* store_state: nothing to do; handle_youtube_feed serializes the feed and returns it
StoreClean(w) ==
    /\ worker[w].pc = "store_locked"
    /\ ~dirty
    /\ lock' = 0
    /\ worker' = [worker EXCEPT ![w] = Return(@, Ok(FeedResponse(worker[w].feed)))]
    /\ UNCHANGED << youtube_videos, dirty, file, now, probe >>

\* store_state: File::create truncates the file
StoreCreate(w) ==
    /\ worker[w].pc = "store_locked"
    /\ dirty
    /\ file' = File("partial", EmptyMap)
    /\ worker' = [worker EXCEPT ![w].pc = "writing"]
    /\ UNCHANGED << youtube_videos, dirty, lock, now, probe >>

\* store_state: File::create fails
StoreCreateErr(w) ==
    /\ worker[w].pc = "store_locked"
    /\ dirty
    /\ lock' = 0
    /\ worker' = [worker EXCEPT ![w] = Return(@, Err("failed to store persistent state"))]
    /\ UNCHANGED << youtube_videos, dirty, file, now, probe >>

\* to_writer_pretty: one more video of the map goes to the file
WriteVideo(w) ==
    /\ worker[w].pc = "writing"
    /\ \E id \in DOMAIN youtube_videos \ DOMAIN file.data :
          file' = File("partial", MapInsert(file.data, id, SerializeVideo(youtube_videos[id])))
    /\ UNCHANGED << youtube_videos, dirty, lock, now, worker, probe >>

\* to_writer_pretty reports a write error
WriteErr(w) ==
    /\ worker[w].pc = "writing"
    /\ lock' = 0
    /\ worker' = [worker EXCEPT ![w] = Return(@, Err("failed to store persistent state"))]
    /\ UNCHANGED << youtube_videos, dirty, file, now, probe >>

\* to_writer_pretty returns Ok and the BufWriter is dropped: its drop flushes
\* what is still buffered and ignores an error of that flush
WriteDone(w) ==
    /\ worker[w].pc = "writing"
    /\ DOMAIN file.data = DOMAIN youtube_videos
    /\ \E flushed \in BOOLEAN :
          file' = File(IF flushed THEN "complete" ELSE "partial", file.data)
    /\ lock' = 0
    /\ worker' = [worker EXCEPT ![w] = Return(@, Ok(FeedResponse(worker[w].feed)))]
    /\ UNCHANGED << youtube_videos, dirty, now, probe >>

\* the closure of main sends the response and the worker waits for the next request
Serve(w) ==
    /\ worker[w].pc = "returned"
    /\ worker' = [worker EXCEPT ![w] = Idle]
    /\ UNCHANGED << youtube_videos, dirty, lock, file, now, probe >>

\* the steps of handle_youtube_feed
Handle(w, feeds, jsons) ==
    \/ StartRequest(w, feeds)
    \/ LookupLock(w)
    \/ LookupHit(w)
    \/ LookupMiss(w)
    \/ FetchOk(w, jsons)
    \/ FetchErr(w)
    \/ InsertLock(w)
    \/ Insert(w)
    \/ StoreLock(w)
    \/ StoreClean(w)
    \/ StoreCreate(w)
    \/ StoreCreateErr(w)
    \/ WriteVideo(w)
    \/ WriteErr(w)
    \/ WriteDone(w)

Step(w, feeds, jsons) ==
    \/ Handle(w, feeds, jsons)
    \/ Serve(w)

\* any number of requests handled concurrently
Next == \E w \in Workers : Step(w, ConcurrentFeeds, ConcurrentYtDlpJson)

Spec == Init /\ [][Next]_vars

\* a single worker: requests are handled one after the other
NextSingle == Step(1, Feeds, YtDlpJson)

SpecSingle == Init /\ [][NextSingle]_vars

\* ----------------------------------------------------------------------
\* Concurrent requests under fair scheduling
\* ----------------------------------------------------------------------
\* the requests: a feed without entries, and a feed with the one video that
\* yt-dlp reports as a short
FairFeeds == { << Leaf("link", None) >>, << EntryB >> }
FairYtDlpJson == { [duration |-> 59, width |-> 9, height |-> 16] }

NextFair == \E w \in Workers : Step(w, FairFeeds, FairYtDlpJson)

\* A thread that waits in state.lock() gets the mutex when it is free again
\* and again; a thread that holds the guard runs on to the end of the guard's
\* scope, and a write to the file comes to an end. Nothing makes a request
\* arrive, and nothing makes yt-dlp return.
Fairness ==
    \A w \in Workers :
        /\ SF_vars(LookupLock(w))
        /\ SF_vars(InsertLock(w))
        /\ SF_vars(StoreLock(w))
        /\ WF_vars(LookupHit(w) \/ LookupMiss(w))
        /\ WF_vars(Insert(w))
        /\ WF_vars(StoreClean(w) \/ StoreCreate(w) \/ StoreCreateErr(w))
        /\ WF_vars(WriteVideo(w) \/ WriteErr(w) \/ WriteDone(w))

SpecFair == Init /\ [][NextFair]_vars /\ Fairness

\* ----------------------------------------------------------------------
\* A single worker, with the request served last kept for comparison
\* ----------------------------------------------------------------------
\* the request served, its result, and the map at that moment
Served(request, result, videos) ==
    [fn |-> "served", request |-> request, result |-> result, videos |-> videos]

\* Serve, and the request is kept
ServeRemembered(w) ==
    /\ worker[w].pc = "returned"
    /\ worker' = [worker EXCEPT ![w] = Idle]
    /\ probe' = Some(Served(worker[w].request[1], worker[w].result[1], youtube_videos))
    /\ UNCHANGED << youtube_videos, dirty, lock, file, now >>

\* the feeds served to it
RepeatedFeeds ==
    { << EntryA >>, << EntryA, Leaf("link", None) >>, << EntryB, EntryA >> }

NextRemembering == Handle(1, RepeatedFeeds, ConcurrentYtDlpJson) \/ ServeRemembered(1)

SpecRemembering == Init /\ [][NextRemembering]_vars

\* ----------------------------------------------------------------------
\* The functions on their own
\* ----------------------------------------------------------------------
\* a call of function fn with argument arg; result is None until it returned
Call(fn, arg) == [fn |-> fn, arg |-> arg, result |-> None]

\* lengths and sizes around the limits of is_short, and those of some videos
ProbeDurations == ((ShortMaxDuration - 2) .. (ShortMaxDuration + 2)) \cup {0, 120, 200}
ProbeSizes == {0, 9, 16}
ProbeYtDlpJson == [duration : ProbeDurations, width : ProbeSizes, height : ProbeSizes]

Calls ==
    { Call("format_duration", n) : n \in 0 .. MaxSeconds }
    \cup { Call("fetch_youtube_video_data", json) : json \in ProbeYtDlpJson }

InitPure ==
    /\ file = File("absent", EmptyMap)
    /\ youtube_videos = load_state(file)
    /\ dirty = FALSE
    /\ lock = 0
    /\ now = 0
    /\ worker = [w \in Workers |-> Idle]
    /\ \E c \in Calls : probe = Some(c)

\* format_duration(seconds) returns
CallFormatDuration ==
    /\ probe # None
    /\ probe[1].fn = "format_duration"
    /\ probe[1].result = None
    /\ probe' = Some([probe[1] EXCEPT !.result = Some(format_duration(probe[1].arg))])
    /\ UNCHANGED << youtube_videos, dirty, lock, file, now, worker >>

\* fetch_youtube_video_data returns Ok, yt-dlp having reported the argument
CallFetch ==
    /\ probe # None
    /\ probe[1].fn = "fetch_youtube_video_data"
    /\ probe[1].result = None
    /\ probe' = Some([probe[1] EXCEPT !.result = Some(FetchedVideo(probe[1].arg, now))])
    /\ UNCHANGED << youtube_videos, dirty, lock, file, now, worker >>

NextPure == CallFormatDuration \/ CallFetch

SpecPure == InitPure /\ [][NextPure]_vars

\* ----------------------------------------------------------------------
\* Notions used by the properties
\* ----------------------------------------------------------------------
Returned(w) == worker[w].pc = "returned"
ResultOf(w) == worker[w].result[1]
RequestOf(w) == worker[w].request[1]

\* the worker returned the transformed feed
ReturnedFeed(w) == Returned(w) /\ ResultOf(w).ok /\ ResultOf(w).value.status = 200

IsEntry(e) == e.name = "entry"
EntriesOf(children) == SelectSeq(children, IsEntry)
NonEntriesOf(children) == SelectSeq(children, LAMBDA e : ~IsEntry(e))

VideoIdOf(e) == ChildText(e.children, "videoId")
TitleOf(e) == ChildText(e.children, "title")
Malformed(e) == IsEntry(e) /\ (VideoIdOf(e) = None \/ TitleOf(e) = None)
HasMalformed(children) == \E i \in 1 .. Len(children) : Malformed(children[i])

\* out is the entry in with the length of video appended to its title and
\* without its "updated" children; all other children as they were
Rewritten(out, in, video) ==
    /\ IsEntry(out)
    /\ TitleOf(out) = Some(TitleOf(in)[1] \o " (" \o format_duration(video.length) \o ")")
    /\ \A i \in 1 .. Len(out.children) : out.children[i].name # "updated"
    /\ SelectSeq(out.children, LAMBDA c : c.name # "title")
          = SelectSeq(in.children, LAMBDA c : c.name \notin {"title", "updated"})

\* ----------------------------------------------------------------------
\* C1: with a single worker, a lookup of a video that has a record never
\* leads to yt-dlp: it returns the stored record and changes neither the
\* map nor dirty; and yt-dlp is only ever run for a video without a record.
\* ----------------------------------------------------------------------
C1_Step(w) ==
    LET l == worker[w]
    IN  /\ (l.pc = "fetch" /\ worker'[w].pc # "fetch")
            => l.video_id[1] \notin DOMAIN youtube_videos
        /\ (l.pc = "lookup_locked" /\ l.video_id[1] \in DOMAIN youtube_videos)
            => /\ worker'[w].pc \notin {"fetch", "insert", "insert_locked"}
               /\ worker'[w].pc # "lookup_locked"
                    => worker'[w].pc = "returned"
                       \/ worker'[w].video_data = Some(youtube_videos[l.video_id[1]])
               /\ youtube_videos' = youtube_videos
               /\ dirty' = dirty

C1_CachedIsNotFetchedAgain == [][\A w \in Workers : C1_Step(w)]_vars

\* a lookup of a video whose record was inserted by an earlier call
C1_Witness ==
    /\ file.status = "absent"
    /\ worker[1].pc = "lookup_locked"
    /\ worker[1].video_id[1] \in DOMAIN youtube_videos

\* ----------------------------------------------------------------------
\* C2: with a single worker, the entries of a returned feed are the entries
\* of the input whose video is not a short, in the order of the input, each
\* with "<title> (<formatted length>)" as its title and without "updated".
\* ----------------------------------------------------------------------
Survivors(children) ==
    SelectSeq(EntriesOf(children), LAMBDA e : ~youtube_videos[VideoIdOf(e)[1]].is_short)

C2_Holds(w) ==
    LET in == Survivors(RequestOf(w).feed)
        out == EntriesOf(ResultOf(w).value.body)
    IN  /\ Len(out) = Len(in)
        /\ \A i \in 1 .. Len(in) :
              Rewritten(out[i], in[i], youtube_videos[VideoIdOf(in[i])[1]])

C2_OutputIsFilteredInput == \A w \in Workers : ReturnedFeed(w) => C2_Holds(w)

\* a short between two videos that are kept
C2_Witness ==
    /\ ReturnedFeed(1)
    /\ Len(EntriesOf(RequestOf(1).feed)) = 3
    /\ youtube_videos[VideoIdOf(RequestOf(1).feed[1])[1]].is_short = FALSE
    /\ youtube_videos[VideoIdOf(RequestOf(1).feed[2])[1]].is_short = TRUE
    /\ Len(EntriesOf(ResultOf(1).value.body)) = 2

\* ----------------------------------------------------------------------
\* C3: a request whose feed has an entry without videoId or title, or whose
\* yt-dlp fails, returns an error instead of a feed and has not called
\* store_state; the file is only changed by a worker inside store_state.
\* ----------------------------------------------------------------------
TransformFailed(w) ==
    /\ Returned(w)
    /\ RequestOf(w).url = FeedUrl
    /\ RequestOf(w).channel_id
    /\ RequestOf(w).upstream = "ok"
    /\ \/ HasMalformed(RequestOf(w).feed)
       \/ ~ResultOf(w).ok /\ ResultOf(w).error \in FetchErrors

C3_Holds(w) ==
    TransformFailed(w)
        => /\ ~ResultOf(w).ok
           /\ DOMAIN ResultOf(w) = {"ok", "error"}
           /\ ~worker[w].store_called

C3_FailedTransformDoesNotPersist ==
    [][ /\ \A w \in Workers : C3_Holds(w)'
        /\ file' # file => \E w \in Workers : worker[w].store_called /\ lock = w ]_vars

\* the second entry is malformed, the first one was looked up and inserted
C3_Witness ==
    \E w \in Workers :
        /\ TransformFailed(w)
        /\ RequestOf(w).feed = << EntryA, EntryNoVideoId >>
        /\ file.status = "absent"
        /\ "v1" \in DOMAIN youtube_videos
        /\ dirty

\* ----------------------------------------------------------------------
\* Notions about store_state
\* ----------------------------------------------------------------------
\* the workers between File::create and the end of to_writer_pretty
Writers == { w \in Workers : worker[w].pc = "writing" }

\* store_state returns in this step, having created the file
WriteEnds(w) == worker[w].pc = "writing" /\ worker'[w].pc = "returned"

\* store_state returns in this step without having created the file
CreateFails(w) == worker[w].pc = "store_locked" /\ dirty /\ worker'[w].pc = "returned"

\* what the file holds, as a map
FileContent == IF file.status = "absent" THEN EmptyMap ELSE file.data

\* ----------------------------------------------------------------------
\* C4: when store_state has written the whole file of a dirty store, dirty
\* is false when it returns.
\* ----------------------------------------------------------------------
C4_WrittenStoreIsClean ==
    [][\A w \in Workers : (WriteEnds(w) /\ file'.status = "complete") => ~dirty']_vars

\* ----------------------------------------------------------------------
\* C5: whenever the mutex is free (and the file is not cut short), dirty is
\* true exactly when the map differs from what the file holds.
\* ----------------------------------------------------------------------
C5_DirtyIffUnwritten ==
    (lock = 0 /\ file.status # "partial")
        => (dirty <=> SerializeState(youtube_videos) # FileContent)

\* ----------------------------------------------------------------------
\* C6: at most one worker writes the file at a time and it holds the mutex
\* while it does, the map does not change while a worker writes the file,
\* and a file written to its end holds the map as it is at that moment.
\* ----------------------------------------------------------------------
C6_WritesAreExclusive ==
    [][ /\ Cardinality(Writers') <= 1
        /\ \A w \in Writers' : lock' = w
        /\ Writers # {} => youtube_videos' = youtube_videos
        /\ (file' # file /\ file'.status = "complete")
              => file'.data = SerializeState(youtube_videos') ]_vars

\* one worker writes the file while another one waits to insert
C6_Witness ==
    \E w1, w2 \in Workers :
        /\ worker[w1].pc = "writing"
        /\ worker[w2].pc = "insert"
        /\ file.data # EmptyMap

\* ----------------------------------------------------------------------
\* C7: no worker holds the mutex while yt-dlp runs for it.
\* ----------------------------------------------------------------------
C7_FetchIsUnlocked == \A w \in Workers : worker[w].pc = "fetch" => lock # w

\* while yt-dlp runs for one worker, another one holds the mutex and inserts
C7_Witness ==
    \E w1, w2 \in Workers :
        /\ worker[w1].pc = "fetch"
        /\ worker[w2].pc = "insert_locked"
        /\ lock = w2

\* ----------------------------------------------------------------------
\* C8: every insertion stores the record of the worker that inserts, also
\* over a record that is already there, and that worker goes on with its
\* own record.
\* ----------------------------------------------------------------------
C8_Step(w) ==
    (worker[w].pc = "insert_locked" /\ worker'[w].pc # "insert_locked")
        => /\ youtube_videos'[worker[w].video_id[1]] = worker[w].video_data[1]
           /\ worker'[w].pc = "returned" \/ worker'[w].video_data = worker[w].video_data

C8_LastInsertionWins == [][\A w \in Workers : C8_Step(w)]_vars

\* two workers asked for the same feed of one video, yt-dlp ran for each of
\* them, and each returned the feed made with its own record
C8_Witness ==
    /\ ReturnedFeed(1)
    /\ ReturnedFeed(2)
    /\ RequestOf(1).feed = << EntryA >>
    /\ RequestOf(2).feed = << EntryA >>
    /\ ResultOf(1).value.body # ResultOf(2).value.body

\* ----------------------------------------------------------------------
\* C9 as stated: once the map has a record for a video, it has the same
\* record for it ever after.
\* ----------------------------------------------------------------------
C9_RecordNeverChanges ==
    [][\A id \in DOMAIN youtube_videos :
          id \in DOMAIN youtube_videos' /\ youtube_videos'[id] = youtube_videos[id]]_vars

\* C9 as amended: a record is never removed, and it changes only by the
\* insertion of a worker that looked the video up before and missed, to the
\* record that worker fetched.
C9_RecordOnlyReplacedByInsertion ==
    [][\A id \in DOMAIN youtube_videos :
          /\ id \in DOMAIN youtube_videos'
          /\ youtube_videos'[id] # youtube_videos[id]
                => \E w \in Workers :
                      /\ worker[w].pc = "insert_locked"
                      /\ worker[w].video_id = Some(id)
                      /\ youtube_videos'[id] = worker[w].video_data[1]]_vars

\* a worker is about to replace a record by a different one
C9_Witness ==
    \E w \in Workers :
        /\ worker[w].pc = "insert_locked"
        /\ worker[w].video_id[1] \in DOMAIN youtube_videos
        /\ youtube_videos[worker[w].video_id[1]] # worker[w].video_data[1]

\* ----------------------------------------------------------------------
\* C10: when store_state cannot create the file or cannot write it to its
\* end, it returns an error, the map is unchanged and dirty is still true.
\* ----------------------------------------------------------------------
C10_FailedWriteIsReported ==
    [][\A w \in Workers :
          (CreateFails(w) \/ (WriteEnds(w) /\ file'.status # "complete"))
              => /\ ~worker'[w].result[1].ok
                 /\ youtube_videos' = youtube_videos
                 /\ dirty']_vars

\* ----------------------------------------------------------------------
\* C11 as stated: when store_state has written the whole file, load_state
\* of that file gives the map that was written, record for record.
\* ----------------------------------------------------------------------
C11_RoundTripIsIdentity ==
    [][\A w \in Workers :
          (WriteEnds(w) /\ file'.status = "complete")
              => load_state(file') = youtube_videos']_vars

\* the timestamp without its part below a second
WholeSeconds(ts) == ts - (ts % TicksPerSecond)

\* loaded has the ids of videos, each with the same length and is_short and
\* with the timestamp cut to whole seconds
SameUpToSeconds(loaded, videos) ==
    /\ DOMAIN loaded = DOMAIN videos
    /\ \A id \in DOMAIN videos :
          /\ loaded[id].length = videos[id].length
          /\ loaded[id].is_short = videos[id].is_short
          /\ loaded[id].timestamp = WholeSeconds(videos[id].timestamp)

\* C11 as amended: load_state of a completely written file gives the ids
\* of the map that was written, each with the same length and is_short and
\* with its timestamp cut to whole seconds.
C11_RoundTripUpToSeconds ==
    [][\A w \in Workers :
          (WriteEnds(w) /\ file'.status = "complete")
              => SameUpToSeconds(load_state(file'), youtube_videos')]_vars

\* a written file with a short and with a record fetched within a second
C11_Witness ==
    /\ file.status = "complete"
    /\ file.data = SerializeState(youtube_videos)
    /\ \E id \in DOMAIN youtube_videos : youtube_videos[id].timestamp % TicksPerSecond # 0
    /\ \E id \in DOMAIN youtube_videos : youtube_videos[id].is_short

\* ----------------------------------------------------------------------
\* Notions about the calls of single functions
\* ----------------------------------------------------------------------
Called(fn) == probe # None /\ probe[1].fn = fn /\ probe[1].result # None
CallArg == probe[1].arg
CallResult == probe[1].result[1]

\* ----------------------------------------------------------------------
\* C12: the record fetched is a short exactly when yt-dlp reports a
\* duration of at most 180 and a height of at least the width, and its
\* length is the duration reported.
\* ----------------------------------------------------------------------
C12_ShortIffBriefAndUpright ==
    Called("fetch_youtube_video_data")
        => /\ CallResult.is_short
                <=> ~(CallArg.duration > 180 \/ CallArg.width > CallArg.height)
           /\ CallResult.length = CallArg.duration
           /\ (CallArg = [duration |-> 120, width |-> 9, height |-> 16]) => CallResult.is_short
           /\ (CallArg = [duration |-> 200, width |-> 9, height |-> 16]) => ~CallResult.is_short
           /\ (CallArg = [duration |-> 120, width |-> 16, height |-> 9]) => ~CallResult.is_short

\* a square video of exactly 180 seconds is a short
C12_Witness ==
    /\ Called("fetch_youtube_video_data")
    /\ CallArg = [duration |-> 180, width |-> 9, height |-> 9]
    /\ CallResult.is_short

\* ----------------------------------------------------------------------
\* C16: format_duration(n) is "<n>s" below 60 and otherwise
\* "<n div 60>:<the two digits of n mod 60>s", the minutes as they are.
\* ----------------------------------------------------------------------
TwoDigits(n) == ToString(n \div 10) \o ToString(n % 10)

C16_DurationFormat ==
    Called("format_duration")
        => /\ CallArg < 60 => CallResult = ToString(CallArg) \o "s"
           /\ CallArg >= 60
                => CallResult = ToString(CallArg \div 60) \o ":" \o TwoDigits(CallArg % 60) \o "s"
           /\ CallArg = 0 => CallResult = "0s"
           /\ CallArg = 59 => CallResult = "59s"
           /\ CallArg = 60 => CallResult = "1:00s"
           /\ CallArg = 125 => CallResult = "2:05s"

\* more than an hour, with seconds below ten
C16_Witness ==
    /\ Called("format_duration")
    /\ CallArg = 3605
    /\ CallResult = "60:05s"

\* ----------------------------------------------------------------------
\* Notions about the request served last
\* ----------------------------------------------------------------------
Remembered == probe # None /\ probe[1].fn = "served"
LastServed == probe[1]

\* the map has a record for every entry of the feed
Covered(videos, children) ==
    \A i \in 1 .. Len(children) :
        IsEntry(children[i])
            => VideoIdOf(children[i]) # None /\ VideoIdOf(children[i])[1] \in DOMAIN videos

\* ----------------------------------------------------------------------
\* C13: with a single worker, a request for a feed whose entries all have
\* a record never runs yt-dlp and never changes the map, and when the same
\* feed was served just before, it returns the same document again.
\* ----------------------------------------------------------------------
C13_NoFetch(w) ==
    (worker[w].pc # "idle" /\ Covered(youtube_videos, RequestOf(w).feed))
        => /\ worker'[w].pc \notin {"fetch", "insert", "insert_locked"}
           /\ youtube_videos' = youtube_videos

C13_SameAgain ==
    ( /\ ReturnedFeed(1)
      /\ Remembered
      /\ LastServed.request = RequestOf(1)
      /\ LastServed.result.ok
      /\ Covered(LastServed.videos, RequestOf(1).feed) )
        => /\ ResultOf(1) = LastServed.result
           /\ youtube_videos = LastServed.videos

C13_TransformIsIdempotent ==
    [][ /\ \A w \in Workers : C13_NoFetch(w)
        /\ C13_SameAgain' ]_vars

\* the same feed returned twice from a store that was loaded with its video
\* and into which nothing was ever inserted
C13_Witness ==
    /\ ReturnedFeed(1)
    /\ Remembered
    /\ LastServed.request = RequestOf(1)
    /\ LastServed.result.ok
    /\ RequestOf(1).feed = << EntryA, Leaf("link", None) >>
    /\ ~dirty

\* ----------------------------------------------------------------------
\* C18: when yt-dlp fails, the request ends with that error and neither
\* the map nor dirty changes; and a lookup that finds no record always goes
\* on to yt-dlp, also after a failure for the same video.
\* ----------------------------------------------------------------------
C18_Step(w) ==
    /\ (worker[w].pc = "fetch" /\ worker'[w].pc = "returned")
          => /\ ~worker'[w].result[1].ok
             /\ worker'[w].result[1].error \in FetchErrors
             /\ youtube_videos' = youtube_videos
             /\ dirty' = dirty
    /\ ( /\ worker[w].pc = "lookup_locked"
         /\ worker[w].video_id[1] \notin DOMAIN youtube_videos
         /\ worker'[w] # worker[w] )
          => worker'[w].pc = "fetch"

C18_FetchFailureIsNotCached == [][\A w \in Workers : C18_Step(w)]_vars

\* yt-dlp runs again for the video it failed for in the request before
C18_Witness ==
    /\ Remembered
    /\ LastServed.request.feed = << EntryA >>
    /\ ~LastServed.result.ok
    /\ LastServed.result.error \in FetchErrors
    /\ worker[1].pc = "fetch"
    /\ worker[1].video_id = Some("v1")

\* ----------------------------------------------------------------------
\* C14: the children of a returned feed are the children of the input that
\* are no entries, as they were and in their order, followed by nothing but
\* entries.
\* ----------------------------------------------------------------------
C14_Holds(w) ==
    LET kept == NonEntriesOf(RequestOf(w).feed)
        body == ResultOf(w).value.body
    IN  /\ Len(body) >= Len(kept)
        /\ SubSeq(body, 1, Len(kept)) = kept
        /\ \A i \in (Len(kept) + 1) .. Len(body) : IsEntry(body[i])

C14_EntriesAreAppended == \A w \in Workers : ReturnedFeed(w) => C14_Holds(w)

\* an entry that stood between two other children comes last
C14_Witness ==
    /\ ReturnedFeed(1)
    /\ RequestOf(1).feed = << Leaf("link", None), EntryA, Leaf("author", Some("N")) >>
    /\ Len(ResultOf(1).value.body) = 3
    /\ IsEntry(ResultOf(1).value.body[3])

\* ----------------------------------------------------------------------
\* C17: a worker only ever looks up, fetches or inserts for the entry that
\* is next in the order of the input, and only when that entry and all
\* entries before it have a videoId and a title.
\* ----------------------------------------------------------------------
Looking(w) ==
    worker[w].pc \in {"lookup", "lookup_locked", "fetch", "insert", "insert_locked"}

C17_Holds(w) ==
    Looking(w)
        => LET all == EntriesOf(RequestOf(w).feed)
               rest == EntriesOf(worker[w].feed)
               k == Len(all) - Len(rest)
           IN  /\ k >= 1
               /\ worker[w].entry = Some(all[k])
               /\ worker[w].video_id = VideoIdOf(all[k])
               /\ rest = SubSeq(all, k + 1, Len(all))
               /\ \A j \in 1 .. k : ~Malformed(all[j])

C17_ChecksPrecedeLookup == \A w \in Workers : C17_Holds(w)

\* the first entry has no title: the request ended with nothing fetched or
\* inserted for its video, and the entry after it was never looked up
C17_Witness ==
    /\ Returned(1)
    /\ RequestOf(1).feed = << EntryNoTitle, EntryA >>
    /\ ~ResultOf(1).ok
    /\ youtube_videos = EmptyMap
    /\ ~dirty
\* ----------------------------------------------------------------------
\* C15: a request to the feed path is answered 200 with the document when
\* channel_id is there and the upstream request, the parse, the transform
\* and store_state all worked; when any of them failed (store_state that
\* could not create the file or did not write it to its end included) the
\* answer is the 500 response and carries no document.
\* ----------------------------------------------------------------------
Returns(w) == worker[w].pc # "returned" /\ worker'[w].pc = "returned"

C15_Failed(w) ==
    LET req == worker'[w].request[1]
    IN  \/ ~req.channel_id
        \/ req.upstream # "ok"
        \/ HasMalformed(req.feed)
        \/ worker[w].pc = "fetch"
        \/ CreateFails(w)
        \/ (WriteEnds(w) /\ file'.status # "complete")

C15_AnyFailureGives500 ==
    [][\A w \in Workers :
          (Returns(w) /\ worker'[w].request[1].url = FeedUrl)
              => LET response == ResponseOf(worker'[w].result[1])
                 IN  IF C15_Failed(w)
                     THEN response.status = 500 /\ "body" \notin DOMAIN response
                     ELSE /\ response.status = 200
                          /\ response.body = worker[w].feed]_vars

\* ----------------------------------------------------------------------
\* C19: a request that fails takes no record out of the map and leaves
\* dirty set, the records it inserted included; and when store_state
\* returns Ok, the file is whole and holds every record of the map.
\* ----------------------------------------------------------------------
C19_OkPersistHoldsEveryRecord ==
    [][\A w \in Workers :
          /\ (Returns(w) /\ ~worker'[w].result[1].ok)
                => /\ DOMAIN youtube_videos \subseteq DOMAIN youtube_videos'
                   /\ dirty => dirty'
                   /\ worker[w].pc = "insert_locked"
                        => /\ worker[w].video_id[1] \in DOMAIN youtube_videos'
                           /\ dirty'
          /\ (Returns(w) /\ worker[w].pc \in {"store_locked", "writing"}
                         /\ worker'[w].result[1].ok)
                => /\ file'.status # "partial"
                   /\ file'.data = SerializeState(youtube_videos')]_vars

\* ----------------------------------------------------------------------
\* C20: the mutex is held by exactly the worker that is between a
\* state.lock() and the end of that guard's scope, so no worker locks it
\* while holding it and every path out of lookup, insertion and store_state
\* gives it back; and, whatever the other workers do (one whose yt-dlp
\* never returns included), a worker that holds the mutex gives it back and
\* a worker that waits for the mutex gets it.
\* ----------------------------------------------------------------------
Waiting(w) == worker[w].pc \in {"lookup", "insert", "store"}
Holding(w) == worker[w].pc \in {"lookup_locked", "insert_locked", "store_locked", "writing"}

====
